---- MODULE Spec2Model ----
(***************************************************************************)
(* Cypher API (src/api/index.ts): the wallet registry, the two chain        *)
(* providers (MockChainProvider, RealMoneroProvider) and the HTTP handlers  *)
(* that serve wallets, balances and transaction lists.                      *)
(*                                                                          *)
(* Strings are TLA+ strings; a character's UTF-16 code is looked up in      *)
(* CharCodes.  A 32-bit unsigned value is a record [hi, lo] of its two      *)
(* 16-bit halves, because the hash works modulo 2^32.  A value above 2^31   *)
(* that takes part in decimal arithmetic is a record [q, r] standing for    *)
(* q * 10^9 + r.                                                            *)
(***************************************************************************)
EXTENDS Integers, Sequences, FiniteSets, TLC

(***************************************************************************)
(* Characters                                                               *)
(***************************************************************************)

\* The characters that occur in the strings of the model, in code order, as runs
\* <<first code, characters>>: space, - . 0-9 : A-Z _ a-z.
AsciiRuns ==
  << <<32, " ">>,
     <<45, "-.">>,
     <<48, "0123456789:">>,
     <<65, "ABCDEFGHIJKLMNOPQRSTUVWXYZ">>,
     <<95, "_">>,
     <<97, "abcdefghijklmnopqrstuvwxyz">> >>

\* String.prototype.charCodeAt, as a table from one-character strings.
CharCodes ==
  LET Entry(run, k) == <<SubSeq(run[2], k, k), run[1] + k - 1>>
      entries == UNION {{Entry(AsciiRuns[n], k) : k \in 1..Len(AsciiRuns[n][2])} :
                          n \in 1..Len(AsciiRuns)}
  IN  [c \in {e[1] : e \in entries} |-> (CHOOSE e \in entries : e[1] = c)[2]]

charCodeAt(s, i) == CharCodes[SubSeq(s, i + 1, i + 1)]

(***************************************************************************)
(* 32-bit arithmetic                                                        *)
(***************************************************************************)

Two8 == 256
Two16 == 65536

RECURSIVE XorBits(_, _, _)
\* Bitwise exclusive or of the lowest n bits of a and b.
XorBits(a, b, n) ==
  IF n = 0 THEN 0
  ELSE ((a + b) % 2) + 2 * XorBits(a \div 2, b \div 2, n - 1)

\* a ^ b for bytes, tabulated.
XorByte == [a \in 0..(Two8 - 1) |-> [b \in 0..(Two8 - 1) |-> XorBits(a, b, 8)]]

\* a ^ b for 16-bit values.
Xor16(a, b) ==
  XorByte[a \div Two8][b \div Two8] * Two8 + XorByte[a % Two8][b % Two8]

\* The FNV offset basis 2166136261 = 0x811C9DC5 and prime 16777619 = 0x01000193.
FnvOffsetHi == 33052
FnvOffsetLo == 40389
FnvPrimeHi == 256
FnvPrimeLo == 403

\* h ^= code: a UTF-16 code unit only reaches the low half.
XorCode(h, code) == [hi |-> h.hi, lo |-> Xor16(h.lo, code)]

\* Math.imul(h, 16777619): the low 32 bits of the product.
ImulPrime(h) ==
  LET low == h.lo * FnvPrimeLo
  IN  [hi |-> (h.hi * FnvPrimeLo + h.lo * FnvPrimeHi + (low \div Two16)) % Two16,
       lo |-> low % Two16]

\* h is a 32-bit value.
IsU32(h) == h.hi \in 0..(Two16 - 1) /\ h.lo \in 0..(Two16 - 1)

RECURSIVE HashRange(_, _, _, _)
\* The iterations i = from .. to - 1 of the loop of pseudoHash, started with h,
\* applied in index order.  The range is halved and the first half is evaluated
\* (by the IsU32 test) before the second, which keeps TLC's evaluation of a long
\* input shallow.
HashRange(h, input, from, to) ==
  IF to <= from THEN h
  ELSE IF to = from + 1 THEN ImulPrime(XorCode(h, charCodeAt(input, from)))
  ELSE LET mid == (from + to) \div 2
           first == HashRange(h, input, from, mid)
       IN  IF IsU32(first) THEN HashRange(first, input, mid, to) ELSE first

\* pseudoHash(input): Math.abs(h >>> 0) is the unsigned value of the 32 bits.
pseudoHash(input) ==
  HashRange([hi |-> FnvOffsetHi, lo |-> FnvOffsetLo], input, 0, Len(input))

(***************************************************************************)
(* Decimal arithmetic on values above 2^31                                  *)
(***************************************************************************)

TenTo4 == 10000
TenTo5 == 100000
TenTo9 == 1000000000

\* The 32-bit value u divided by 10^4: quotient and remainder.
DivTenTo4(u) ==
  LET rest == (u.hi % TenTo4) * Two16 + u.lo
  IN  [quot |-> (u.hi \div TenTo4) * Two16 + rest \div TenTo4,
       rem  |-> rest % TenTo4]

\* u % m for a modulus m <= 10^4.
ModSmall(u, m) ==
  LET d == DivTenTo4(u)
  IN  ((d.quot % m) * (TenTo4 % m) + d.rem) % m

\* u % (k * 10^4) for k <= 10^4.
ModTenTo4Times(u, k) ==
  LET d == DivTenTo4(u)
  IN  (d.quot % k) * TenTo4 + d.rem

\* The 32-bit value u as q * 10^9 + r.
ToBig(u) ==
  LET d == DivTenTo4(u)
  IN  [q |-> d.quot \div TenTo5, r |-> (d.quot % TenTo5) * TenTo4 + d.rem]

Big(q, r) == [q |-> q, r |-> r]

BigAdd(a, b) ==
  [q |-> a.q + b.q + (a.r + b.r) \div TenTo9, r |-> (a.r + b.r) % TenTo9]

RECURSIVE PadLeft(_, _)
\* The decimal digits of n, padded with zeros on the left to width w.
PadLeft(n, w) ==
  LET str == ToString(n)
  IN  IF Len(str) >= w THEN str ELSE "0" \o PadLeft(n, w - 1)

\* String(n) for n = q * 10^9 + r.
BigToString(n) ==
  IF n.q = 0 THEN ToString(n.r) ELSE ToString(n.q) \o PadLeft(n.r, 9)

\* String(u) and `${u}` for a 32-bit value u.
U32ToString(u) == BigToString(ToBig(u))

HexDigits == "0123456789abcdef"

RECURSIVE Hex(_)
\* n.toString(16) for 0 <= n < 2^16.
Hex(n) ==
  IF n < 16 THEN SubSeq(HexDigits, n + 1, n + 1)
  ELSE Hex(n \div 16) \o SubSeq(HexDigits, (n % 16) + 1, (n % 16) + 1)

RECURSIVE HexPadded(_, _)
HexPadded(n, w) ==
  IF w = 0 THEN ""
  ELSE HexPadded(n \div 16, w - 1) \o SubSeq(HexDigits, (n % 16) + 1, (n % 16) + 1)

\* u.toString(16) for a 32-bit value u.
U32ToHex(u) == IF u.hi = 0 THEN Hex(u.lo) ELSE Hex(u.hi) \o HexPadded(u.lo, 4)

\* formatAtomic(n) = String(Math.max(0, Math.floor(n))): every n the providers pass
\* is a non-negative integer, so max and floor return n.
formatAtomic(n) == BigToString(n)

(***************************************************************************)
(* Dates                                                                    *)
(***************************************************************************)

SecondsPerDay == 86400
SecondsPerHour == 3600

\* Date.prototype.toISOString for the instant s seconds and ms milliseconds after
\* the epoch (s >= 0): the proleptic Gregorian date of the day number.
toISOString(s, ms) ==
  LET days == s \div SecondsPerDay
      sod  == s % SecondsPerDay
      z    == days + 719468
      era  == z \div 146097
      doe  == z - era * 146097
      yoe  == (doe - doe \div 1460 + doe \div 36524 - doe \div 146096) \div 365
      doy  == doe - (365 * yoe + yoe \div 4 - yoe \div 100)
      mp   == (5 * doy + 2) \div 153
      d    == doy - (153 * mp + 2) \div 5 + 1
      m    == IF mp < 10 THEN mp + 3 ELSE mp - 9
      y    == yoe + era * 400 + (IF m <= 2 THEN 1 ELSE 0)
  IN  PadLeft(y, 4) \o "-" \o PadLeft(m, 2) \o "-" \o PadLeft(d, 2) \o "T"
        \o PadLeft(sod \div SecondsPerHour, 2) \o ":"
        \o PadLeft((sod % SecondsPerHour) \div 60, 2) \o ":"
        \o PadLeft(sod % 60, 2) \o "." \o PadLeft(ms, 3) \o "Z"

(***************************************************************************)
(* MockChainProvider                                                        *)
(***************************************************************************)

Max(a, b) == IF a >= b THEN a ELSE b
Min(a, b) == IF a <= b THEN a ELSE b

\* u % m for a modulus m above 2^32 (900_000_000_000, 250_000_000_000,
\* 120_000_000_000): the remainder of a 32-bit value is the value itself.
ModAbove32(u) == ToBig(u)

MockName == "mock"

\* getBalance seeded with the time of the call instead of createdAt.
MockGetBalanceSeededByClock(wallet, now) ==
  LET seed == pseudoHash(wallet.id \o wallet.address \o toISOString(now.s, now.ms))
      syncedHeight == Max(wallet.restoreHeight, 2850000 + ModSmall(seed, 10000))
      unlockedAtomic == BigAdd(Big(1500, 0), ModAbove32(seed))
      pendingAtomic == IF ModSmall(seed, 2) = 0 THEN Big(80, 0) ELSE Big(0, 0)
      balanceAtomic == BigAdd(unlockedAtomic, pendingAtomic)
  IN  [network        |-> "stagenet",
       balanceAtomic  |-> formatAtomic(balanceAtomic),
       unlockedAtomic |-> formatAtomic(unlockedAtomic),
       syncedHeight   |-> syncedHeight,
       lastUpdatedAt  |-> toISOString(now.s, now.ms)]

\* MockChainProvider.getBalance(wallet), called when the clock reads now.
MockGetBalance(wallet, now) ==
  LET seed == pseudoHash(wallet.id \o wallet.address \o wallet.createdAt)
      syncedHeight == Max(wallet.restoreHeight, 2850000 + ModSmall(seed, 10000))
      unlockedAtomic == BigAdd(Big(1500, 0), ModAbove32(seed))
      pendingAtomic == IF ModSmall(seed, 2) = 0 THEN Big(80, 0) ELSE Big(0, 0)
      balanceAtomic == BigAdd(unlockedAtomic, pendingAtomic)
  IN  [network        |-> "stagenet",
       balanceAtomic  |-> formatAtomic(balanceAtomic),
       unlockedAtomic |-> formatAtomic(unlockedAtomic),
       syncedHeight   |-> syncedHeight,
       lastUpdatedAt  |-> toISOString(now.s, now.ms)]

\* const seed = pseudoHash(wallet.id + wallet.address + "txs")
TxsSeed(wallet) == pseudoHash(wallet.id \o wallet.address \o "txs")

\* const tipHeight = baseHeight + 120
TipHeight(wallet) ==
  Max(wallet.restoreHeight, 2850000 + ModSmall(TxsSeed(wallet), 5000)) + 120

\* TxCount without the lower clamp.
TxCountNoFloor(limit) == Min(limit, 50)

\* const count = Math.min(Math.max(limit, 1), 50)
TxCount(limit) == Min(Max(limit, 1), 50)

\* TxHeight counting upward from the tip.
TxHeightAboveTip(tipHeight, i, txSeed) == tipHeight + i * (1 + ModSmall(txSeed, 7))

\* const height = tipHeight - i * (1 + (txSeed % 7))
TxHeight(tipHeight, i, txSeed) == tipHeight - i * (1 + ModSmall(txSeed, 7))

\* const confirmations = Math.max(0, tipHeight - height)
TxConfirmations(tipHeight, height) == Max(0, tipHeight - height)

\* const status = confirmations < 10 ? "pending" : "confirmed"
TxStatus(confirmations) == IF confirmations < 10 THEN "pending" ELSE "confirmed"

\* The body of the loop of getTransactions for index i.
MockTx(wallet, seedText, tipHeight, i, now) ==
  LET txSeed == pseudoHash(wallet.id \o ":" \o ToString(i) \o ":" \o seedText)
      direction == IF i % 3 = 0 THEN "out" ELSE "in"
      height == TxHeight(tipHeight, i, txSeed)
      confirmations == TxConfirmations(tipHeight, height)
      amountAtomic == IF direction = "in"
                      THEN BigAdd(Big(50, 0), ModAbove32(txSeed))
                      ELSE BigAdd(Big(20, 0), ModAbove32(txSeed))
      feeAtomic == IF direction = "out"
                   THEN Big(0, 1500000 + ModTenTo4Times(txSeed, 90))
                   ELSE Big(0, 0)
      timestamp == toISOString(
                     now.s - (i + 1) * (4 + ModSmall(txSeed, 8)) * SecondsPerHour, 0)
  IN  [txid          |-> "mock_" \o SubSeq(wallet.id, 1, 6) \o "_" \o ToString(i)
                           \o "_" \o U32ToHex(txSeed),
       direction     |-> direction,
       amountAtomic  |-> formatAtomic(amountAtomic),
       feeAtomic     |-> formatAtomic(feeAtomic),
       height        |-> height,
       confirmations |-> confirmations,
       timestamp     |-> timestamp,
       status        |-> TxStatus(confirmations)]

\* MockChainProvider.getTransactions(wallet, limit), called when the clock reads
\* now: the entries pushed for i = 0 .. count - 1, in that order.
MockGetTransactions(wallet, limit, now) ==
  LET seedText == U32ToString(TxsSeed(wallet))
      tipHeight == TipHeight(wallet)
      count == TxCount(limit)
  IN  [k \in 1..count |-> MockTx(wallet, seedText, tipHeight, k - 1, now)]

(***************************************************************************)
(* JSON values                                                              *)
(***************************************************************************)

\* A JSON or JavaScript value is a record tagged with its type; Undefined stands
\* for a field that is absent.
Undefined == [type |-> "undefined"]
Null == [type |-> "null"]
Str(text) == [type |-> "string", value |-> text]
\* A number: value is its integer part, integer says whether it has no fraction.
Num(n) == [type |-> "number", value |-> n, integer |-> TRUE]
Fraction(n) == [type |-> "number", value |-> n, integer |-> FALSE]

\* JavaScript truthiness, as `if (v)` and `!v` test it.
Truthy(v) ==
  CASE v.type \in {"undefined", "null"} -> FALSE
    [] v.type = "number" -> ~(v.value = 0 /\ v.integer)
    [] v.type = "string" -> v.value # ""
    [] OTHER -> TRUE

\* v ?? d
Coalesce(v, d) == IF v.type \in {"undefined", "null"} THEN d ELSE v

(***************************************************************************)
(* RealMoneroProvider                                                       *)
(***************************************************************************)

RealName == "real-daemon-v0"

Threw(message) == [threw |-> TRUE, message |-> message]
Returned(value) == [threw |-> FALSE, value |-> value]

\* response.ok
HttpOk(status) == status \in 200..299

\* daemonRpc that looks for the result before the error field.
daemonRpcResultFirst(reply) ==
  IF reply.kind = "network_error" THEN Threw(reply.message)
  ELSE IF ~HttpOk(reply.status) THEN Threw("Daemon RPC HTTP " \o ToString(reply.status))
  ELSE IF reply.body.type = "not_json" THEN Threw("JSON Parse error")
  ELSE IF reply.body.type = "null" THEN Threw("null is not an object")
  ELSE IF ~Truthy(reply.body.result) THEN Threw("Daemon RPC returned no result")
  ELSE IF Truthy(reply.body.error)
       THEN Threw(Coalesce(reply.body.error.message, Str("Daemon RPC error")).value)
  ELSE Returned(reply.body.result)

\* RealMoneroProvider.daemonRpc, given what fetch does: reply.kind is
\* "network_error" (fetch rejects), or "http" with a status and a body that is
\* either not JSON, the JSON value null, or an envelope object.
daemonRpc(reply) ==
  IF reply.kind = "network_error" THEN Threw(reply.message)
  ELSE IF ~HttpOk(reply.status) THEN Threw("Daemon RPC HTTP " \o ToString(reply.status))
  ELSE IF reply.body.type = "not_json" THEN Threw("JSON Parse error")
  ELSE IF reply.body.type = "null" THEN Threw("null is not an object")
  ELSE IF Truthy(reply.body.error)
       THEN Threw(Coalesce(reply.body.error.message, Str("Daemon RPC error")).value)
  ELSE IF ~Truthy(reply.body.result) THEN Threw("Daemon RPC returned no result")
  ELSE Returned(reply.body.result)

\* RealMoneroProvider.getBalance(_wallet), called when the clock reads now.
RealGetBalance(wallet, reply, now) ==
  LET info == daemonRpc(reply)
  IN  IF info.threw THEN info
      ELSE Returned([network        |-> "stagenet",
                     balanceAtomic  |-> "0",
                     unlockedAtomic |-> "0",
                     syncedHeight   |-> Coalesce(info.value.height, Num(0)).value,
                     lastUpdatedAt  |-> toISOString(now.s, now.ms)])

\* RealMoneroProvider.getTransactions(_wallet, _limit)
RealGetTransactions(wallet, limit, reply) ==
  LET info == daemonRpc(reply)
  IN  IF info.threw THEN info ELSE Returned(<<>>)

(***************************************************************************)
(* Provider resolution                                                      *)
(***************************************************************************)

UpperCase == "ABCDEFGHIJKLMNOPQRSTUVWXYZ"
LowerCase == "abcdefghijklmnopqrstuvwxyz"

RECURSIVE toLowerCase(_)
\* String.prototype.toLowerCase on the characters of the model.
toLowerCase(str) ==
  IF str = "" THEN ""
  ELSE LET c == SubSeq(str, 1, 1)
           ks == {k \in 1..Len(UpperCase) : SubSeq(UpperCase, k, k) = c}
           lc == IF ks = {} THEN c
                 ELSE LET k == CHOOSE k \in ks : TRUE IN SubSeq(LowerCase, k, k)
       IN  lc \o toLowerCase(SubSeq(str, 2, Len(str)))

\* resolveProvider that compares the value as it was written.
resolveProviderCaseSensitive(env) ==
  IF env = Str("real") THEN "RealMoneroProvider" ELSE "MockChainProvider"

\* resolveProvider(): env is process.env.CHAIN_PROVIDER; the result is the class
\* of the provider constructed.
resolveProvider(env) ==
  LET mode == toLowerCase(Coalesce(env, Str("mock")).value)
  IN  IF mode = "real" THEN "RealMoneroProvider" ELSE "MockChainProvider"

\* provider.name
ProviderName(p) == IF p = "RealMoneroProvider" THEN RealName ELSE MockName

(***************************************************************************)
(* Request validation (zod schemas)                                         *)
(***************************************************************************)

\* typeof-style name zod reports for a value of the wrong type.
ReceivedType(v) ==
  IF v.type = "number" /\ ~v.integer THEN "float" ELSE v.type

\* The issues of z.string().min(lo, shortMessage) on v.
StringIssues(v, lo, shortMessage) ==
  IF v.type = "undefined" THEN <<"Required">>
  ELSE IF v.type # "string" THEN <<"Expected string, received " \o ReceivedType(v)>>
  ELSE IF Len(v.value) < lo THEN <<shortMessage>>
  ELSE <<>>

\* The issues of z.string().min(1).max(100) on v.
LabelIssues(v) ==
  StringIssues(v, 1, "String must contain at least 1 character(s)")
    \o (IF v.type = "string" /\ Len(v.value) > 100
        THEN <<"String must contain at most 100 character(s)">> ELSE <<>>)

\* RestoreHeightIssues that takes any number.
RestoreHeightIssuesAnyNumber(v) ==
  IF v.type \in {"undefined", "number"} THEN <<>>
  ELSE <<"Expected number, received " \o v.type>>

\* The issues of z.number().int().nonnegative().optional() on v.
RestoreHeightIssues(v) ==
  IF v.type = "undefined" THEN <<>>
  ELSE IF v.type # "number" THEN <<"Expected number, received " \o v.type>>
  ELSE (IF v.integer THEN <<>> ELSE <<"Expected integer, received float">>)
       \o (IF v.value < 0 THEN <<"Number must be greater than or equal to 0">>
           ELSE <<>>)

\* importWalletSchema: the issues of each field of an object payload.
importWalletSchema(payload) ==
  [address       |-> StringIssues(payload.address, 20, "address looks too short"),
   viewKey       |-> StringIssues(payload.viewKey, 20, "view key looks too short"),
   restoreHeight |-> RestoreHeightIssues(payload.restoreHeight)]

\* registerLocalWalletSchema: the issues of each field of an object payload.
registerLocalWalletSchema(payload) ==
  [walletLabel   |-> LabelIssues(payload.walletLabel),
   restoreHeight |-> RestoreHeightIssues(payload.restoreHeight)]

\* schema.safeParse(payload), with error.flatten() as details when it fails.  A
\* request body that is not JSON reaches safeParse as null (.catch(() => null)).
safeParse(schemaIssues, payload) ==
  IF payload.type # "object"
  THEN [success |-> FALSE,
        details |-> [formErrors  |-> <<"Expected object, received null">>,
                     fieldErrors |-> <<>>]]
  ELSE LET bad == {f \in DOMAIN schemaIssues : schemaIssues[f] # <<>>}
       IN  IF bad = {} THEN [success |-> TRUE, data |-> payload]
           ELSE [success |-> FALSE,
                 details |-> [formErrors  |-> <<>>,
                              fieldErrors |-> [f \in bad |-> schemaIssues[f]]]]

(***************************************************************************)
(* Inputs                                                                   *)
(***************************************************************************)

\* The identifiers crypto.randomUUID() hands out, in no particular order.
UuidPool ==
  << "3f2b8a1c-7d4e-4f9a-8b6c-1e2d3c4b5a69",
     "9c1d2e3f-4a5b-4c6d-9e7f-8a9b0c1d2e3f",
     "0b7e6d5c-4f3a-4b2c-a1d0-e9f8a7b6c5d4",
     "d4c3b2a1-0f9e-4d8c-b7a6-5f4e3d2c1b0a" >>

\* The number of wallets the registry may hold.
MaxWallets == 2

Ids == {UuidPool[k] : k \in 1..MaxWallets}

\* An identifier no registration ever returns.
UnknownId == "no-such-wallet"

\* The clock readings: s seconds and ms milliseconds after the epoch.
Times == {[s |-> 1767225600, ms |-> 0], [s |-> 1767229200, ms |-> 250]}

AddressA == "aaaaaaaaaaaaaaaaaaaa"
KeyB == "bbbbbbbbbbbbbbbbbbbb"
KeyC == "cccccccccccccccccccccccc"

\* A request body that is not JSON.
NotJson == [type |-> "not_json"]

ImportPayload(address, viewKey, restoreHeight) ==
  [type |-> "object", address |-> address, viewKey |-> viewKey,
   restoreHeight |-> restoreHeight]

\* The bodies sent to POST /wallets/import.  The second one gives as its address
\* the string the first one gives as its view key.
ImportBodies ==
  { ImportPayload(Str(AddressA), Str(KeyB), Num(100)),
    ImportPayload(Str(KeyB), Str(KeyC), Num(2900000)),
    ImportPayload(Str(AddressA), Str("short"), Undefined),
    ImportPayload(Str("short"), Str(KeyB), Undefined),
    ImportPayload(Str(AddressA), Str(KeyB), Num(0 - 1)),
    NotJson }

\* A label of 101 characters.
LongLabel ==
  LET ten == "llllllllll"
      fifty == ten \o ten \o ten \o ten \o ten
  IN  fifty \o fifty \o "l"

LocalPayload(walletLabel, restoreHeight) ==
  [type |-> "object", walletLabel |-> walletLabel, restoreHeight |-> restoreHeight]

\* The bodies sent to POST /wallets/register-local.
LocalBodies ==
  { LocalPayload(Str("main"), Undefined),
    LocalPayload(Str(""), Num(100)),
    LocalPayload(Str(LongLabel), Undefined),
    LocalPayload(Str("main"), Fraction(1)),
    NotJson }

\* The values of the limit query parameter of GET /wallets/:id/txs.
Queries == {Undefined, Str("0"), Str("-3"), Str("3"), Str("51"), Str("abc")}

Envelope(error, result) == [type |-> "object", error |-> error, result |-> result]
Info(height) == [type |-> "object", height |-> height]
RpcError(message) == [type |-> "object", message |-> message]
Http(status, body) == [kind |-> "http", status |-> status, body |-> body]

\* What fetch does with a request to the daemon.
DaemonReplies ==
  { [kind |-> "network_error", message |-> "Unable to connect"],
    Http(500, Envelope(Undefined, Info(Num(2855000)))),
    Http(200, NotJson),
    Http(200, Null),
    Http(200, Envelope(RpcError(Str("daemon busy")), Info(Num(2855000)))),
    Http(200, Envelope(RpcError(Undefined), Undefined)),
    Http(200, Envelope(Undefined, Undefined)),
    Http(200, Envelope(Undefined, Null)),
    Http(200, Envelope(Undefined, Info(Num(2855000)))),
    Http(200, Envelope(Undefined, Info(Undefined))),
    Http(200, Envelope(Null, Info(Num(50)))) }

\* The values of process.env.CHAIN_PROVIDER.
Envs == {Undefined, Str("real"), Str("REAL"), Str("mainnet")}

(***************************************************************************)
(* State                                                                    *)
(***************************************************************************)

VARIABLES
  popup,          \* the popup of the extension: its React state and its storage
  env,            \* process.env.CHAIN_PROVIDER
  provider,       \* const provider = resolveProvider(): the class bound at startup
  wallets,        \* const wallets = new Map<string, WalletRecord>()
  request,        \* the request being answered
  response,       \* the response the handler returned: status and JSON body
  providerCalls   \* the calls the handler made on the provider, in order

vars == <<popup, env, provider, wallets, request, response, providerCalls>>

\* No popup is open.
NoPopup == [view |-> "closed"]

NoRequest == [op |-> "none"]
NoResponse == [status |-> 0]

\* c.json(body, status)
Json(body, status) == [status |-> status, body |-> body]

Init ==
  /\ popup = NoPopup
  /\ env \in Envs
  /\ provider = resolveProvider(env)
  /\ wallets = <<>>
  /\ request = NoRequest
  /\ response = NoResponse
  /\ providerCalls = <<>>

\* The server takes a request when the previous response has been handed over.
Idle == response.status = 0

\* wallets.set(id, record)
\* MapSet that drops the entries the map had.
MapSetAlone(map, id, record) == [k \in {id} |-> record]

MapSet(map, id, record) ==
  [k \in DOMAIN map \cup {id} |-> IF k = id THEN record ELSE map[k]]

InvalidPayload(details) ==
  Json([ok |-> FALSE, error |-> "invalid_payload", details |-> details], 400)

\* WalletNotFound without the status argument of c.json.
WalletNotFoundDefaultStatus == Json([ok |-> FALSE, error |-> "wallet_not_found"], 200)

WalletNotFound == Json([ok |-> FALSE, error |-> "wallet_not_found"], 404)

\* The record of one call on the provider: the method, its arguments, the reply
\* of the daemon to the request the call made (kind "none" when it made none),
\* and whether the call threw, with the message of the error.
Call(method, wallet, limit, reply, outcome) ==
  [method |-> method, wallet |-> wallet, limit |-> limit, rpc |-> reply,
   threw |-> outcome.threw,
   message |-> IF outcome.threw THEN outcome.message ELSE ""]

(***************************************************************************)
(* POST /wallets/import                                                     *)
(***************************************************************************)

ImportRecord(id, data, now) ==
  [id            |-> id,
   address       |-> data.address.value,
   viewKey       |-> data.viewKey.value,
   restoreHeight |-> Coalesce(data.restoreHeight, Num(0)).value,
   createdAt     |-> toISOString(now.s, now.ms)]

ImportResponse(id) == Json([ok |-> TRUE, walletId |-> id, watchOnly |-> TRUE], 200)

ImportWallet(body, id, now) ==
  LET payload == IF body.type = "not_json" THEN Null ELSE body
      parsed == safeParse(importWalletSchema(payload), payload)
  IN  /\ Idle
      /\ request' = [op |-> "import", body |-> body]
      /\ providerCalls' = <<>>
      /\ IF ~parsed.success
         THEN /\ response' = InvalidPayload(parsed.details)
              /\ UNCHANGED wallets
         ELSE /\ id \notin DOMAIN wallets
              /\ wallets' = MapSet(wallets, id, ImportRecord(id, parsed.data, now))
              /\ response' = ImportResponse(id)
      /\ UNCHANGED <<popup, env, provider>>

(***************************************************************************)
(* POST /wallets/register-local                                             *)
(***************************************************************************)

LocalRecord(id, data, now) ==
  [id            |-> id,
   address       |-> "pending-address:" \o data.walletLabel.value \o ":" \o id,
   viewKey       |-> "pending-view-key:" \o id,
   restoreHeight |-> Coalesce(data.restoreHeight, Num(0)).value,
   createdAt     |-> toISOString(now.s, now.ms)]

LocalResponse(id, data) ==
  Json([ok |-> TRUE, walletId |-> id, walletLabel |-> data.walletLabel.value,
        mode |-> "mnemonic-local"], 200)

RegisterLocalWallet(body, id, now) ==
  LET payload == IF body.type = "not_json" THEN Null ELSE body
      parsed == safeParse(registerLocalWalletSchema(payload), payload)
  IN  /\ Idle
      /\ request' = [op |-> "register-local", body |-> body]
      /\ providerCalls' = <<>>
      /\ IF ~parsed.success
         THEN /\ response' = InvalidPayload(parsed.details)
              /\ UNCHANGED wallets
         ELSE /\ id \notin DOMAIN wallets
              /\ wallets' = MapSet(wallets, id, LocalRecord(id, parsed.data, now))
              /\ response' = LocalResponse(id, parsed.data)
      /\ UNCHANGED <<popup, env, provider>>

(***************************************************************************)
(* GET /wallets/:id                                                         *)
(***************************************************************************)

\* WalletResponse that returns the whole record.
WalletResponseWholeRecord(wallet) == Json([ok |-> TRUE, wallet |-> wallet], 200)

WalletResponse(wallet) ==
  Json([ok |-> TRUE,
        wallet |-> [id            |-> wallet.id,
                    address       |-> wallet.address,
                    restoreHeight |-> wallet.restoreHeight,
                    createdAt     |-> wallet.createdAt]], 200)

GetWallet(id) ==
  /\ Idle
  /\ request' = [op |-> "getWallet", id |-> id]
  /\ providerCalls' = <<>>
  /\ response' = IF id \notin DOMAIN wallets THEN WalletNotFound
                 ELSE WalletResponse(wallets[id])
  /\ UNCHANGED <<popup, env, provider, wallets>>

(***************************************************************************)
(* GET /wallets/:id/balance                                                 *)
(***************************************************************************)

\* provider.getBalance(wallet): what the bound provider returns or throws.
ProviderGetBalance(wallet, reply, now) ==
  IF provider = "RealMoneroProvider" THEN RealGetBalance(wallet, reply, now)
  ELSE Returned(MockGetBalance(wallet, now))

BalanceResponse(wallet, balance) ==
  Json([ok             |-> TRUE,
        walletId       |-> wallet.id,
        network        |-> balance.network,
        balanceAtomic  |-> balance.balanceAtomic,
        unlockedAtomic |-> balance.unlockedAtomic,
        syncedHeight   |-> balance.syncedHeight,
        lastUpdatedAt  |-> balance.lastUpdatedAt,
        source         |-> ProviderName(provider)], 200)

\* ProviderError that always gives the fallback message.
ProviderErrorUnknown(code, message) ==
  Json([ok |-> FALSE, error |-> code, provider |-> ProviderName(provider),
        message |-> "Unknown provider error"], 502)

ProviderError(code, message) ==
  Json([ok |-> FALSE, error |-> code, provider |-> ProviderName(provider),
        message |-> message], 502)

GetBalance(id, reply, now) ==
  /\ Idle
  /\ request' = [op |-> "getBalance", id |-> id]
  /\ IF id \notin DOMAIN wallets
     THEN /\ response' = WalletNotFound
          /\ providerCalls' = <<>>
     ELSE LET wallet == wallets[id]
          IN  \E outcome \in {ProviderGetBalance(wallet, reply, now)} :
                /\ providerCalls' = <<Call("getBalance", wallet, Undefined, reply,
                                           outcome)>>
                /\ response' = IF outcome.threw
                               THEN ProviderError("provider_balance_error",
                                                  outcome.message)
                               ELSE BalanceResponse(wallet, outcome.value)
  /\ UNCHANGED <<popup, env, provider, wallets>>

(***************************************************************************)
(* GET /wallets/:id/txs                                                     *)
(***************************************************************************)

NaN == [finite |-> FALSE, value |-> 0]
Finite(n) == [finite |-> TRUE, value |-> n]

Digits == "0123456789"

RECURSIVE DigitsValue(_, _)
\* The value of the decimal digits str after the digits read so far gave acc; -1
\* when a character is not a digit.
DigitsValue(str, acc) ==
  IF str = "" THEN acc
  ELSE LET ds == {d \in 0..9 : SubSeq(Digits, d + 1, d + 1) = SubSeq(str, 1, 1)}
       IN  IF ds = {} THEN -1
           ELSE DigitsValue(SubSeq(str, 2, Len(str)), 10 * acc + CHOOSE d \in ds : TRUE)

\* Number(str) for the strings of the model: "" is 0, an optionally signed run of
\* decimal digits is its value, and text that is no number is NaN.
NumberOf(str) ==
  IF str = "" THEN Finite(0)
  ELSE LET negative == SubSeq(str, 1, 1) = "-"
           digits == IF negative THEN SubSeq(str, 2, Len(str)) ELSE str
           v == DigitsValue(digits, 0)
       IN  IF digits = "" \/ v < 0 THEN NaN
           ELSE Finite(IF negative THEN 0 - v ELSE v)

\* const limit = Number(c.req.query("limit") ?? 10), and the argument
\* Number.isFinite(limit) ? limit : 10 handed to the provider.
LimitArgument(query) ==
  LET limit == IF query.type = "undefined" THEN Finite(10) ELSE NumberOf(query.value)
  IN  IF limit.finite THEN limit.value ELSE 10

\* provider.getTransactions(wallet, limit): what the bound provider returns or
\* throws.
ProviderGetTransactions(wallet, limit, reply, now) ==
  IF provider = "RealMoneroProvider" THEN RealGetTransactions(wallet, limit, reply)
  ELSE Returned(MockGetTransactions(wallet, limit, now))

TxsResponse(wallet, txs) ==
  Json([ok |-> TRUE, walletId |-> wallet.id, txs |-> txs,
        source |-> ProviderName(provider)], 200)

GetTransactions(id, query, reply, now) ==
  /\ Idle
  /\ request' = [op |-> "getTransactions", id |-> id, query |-> query]
  /\ IF id \notin DOMAIN wallets
     THEN /\ response' = WalletNotFound
          /\ providerCalls' = <<>>
     ELSE LET wallet == wallets[id]
              limit == LimitArgument(query)
          IN  \E outcome \in {ProviderGetTransactions(wallet, limit, reply, now)} :
                /\ providerCalls' = <<Call("getTransactions", wallet, Num(limit), reply,
                                           outcome)>>
                /\ response' = IF outcome.threw
                               THEN ProviderError("provider_txs_error", outcome.message)
                               ELSE TxsResponse(wallet, outcome.value)
  /\ UNCHANGED <<popup, env, provider, wallets>>

(***************************************************************************)
(* The server                                                               *)
(***************************************************************************)

\* The response is handed to the caller.
Return ==
  /\ ~Idle
  /\ request' = NoRequest
  /\ response' = NoResponse
  /\ providerCalls' = <<>>
  /\ UNCHANGED <<popup, env, provider, wallets>>

\* The daemon replies a provider call can meet: the simulator makes no request.
Replies == IF provider = "RealMoneroProvider" THEN DaemonReplies
           ELSE {[kind |-> "none"]}

Next ==
  \/ \E body \in ImportBodies, id \in Ids, now \in Times : ImportWallet(body, id, now)
  \/ \E body \in LocalBodies, id \in Ids, now \in Times :
        RegisterLocalWallet(body, id, now)
  \/ \E id \in Ids \cup {UnknownId} : GetWallet(id)
  \/ \E id \in Ids \cup {UnknownId}, reply \in Replies, now \in Times :
        GetBalance(id, reply, now)
  \/ \E id \in Ids \cup {UnknownId}, query \in Queries, reply \in Replies,
        now \in Times : GetTransactions(id, query, reply, now)
  \/ Return

Spec == Init /\ [][Next]_vars

(***************************************************************************)
(* The popup: encodings                                                     *)
(***************************************************************************)

Base64Alphabet == "ABCDEFGHIJKLMNOPQRSTUVWXYZabcdefghijklmnopqrstuvwxyz0123456789+/"

Base64Char(n) == SubSeq(Base64Alphabet, n + 1, n + 1)
Base64Index(c) == CHOOSE n \in 0..63 : Base64Char(n) = c

\* btoa on a group of one to three bytes.
Base64Group(bytes) ==
  LET n  == Len(bytes)
      b1 == bytes[1]
      b2 == IF n >= 2 THEN bytes[2] ELSE 0
      b3 == IF n >= 3 THEN bytes[3] ELSE 0
  IN  Base64Char(b1 \div 4)
        \o Base64Char((b1 % 4) * 16 + b2 \div 16)
        \o (IF n >= 2 THEN Base64Char((b2 % 16) * 4 + b3 \div 64) ELSE "=")
        \o (IF n >= 3 THEN Base64Char(b3 % 64) ELSE "=")

RECURSIVE toBase64(_)
\* toBase64(bytes): btoa of the binary string of the bytes.
toBase64(bytes) ==
  IF Len(bytes) = 0 THEN ""
  ELSE Base64Group(SubSeq(bytes, 1, Min(3, Len(bytes))))
         \o toBase64(SubSeq(bytes, 4, Len(bytes)))

\* atob on a group of four characters.
Base64Bytes(group) ==
  LET c(k) == SubSeq(group, k, k)
      pad  == IF c(3) = "=" THEN 2 ELSE IF c(4) = "=" THEN 1 ELSE 0
      i1   == Base64Index(c(1))
      i2   == Base64Index(c(2))
      i3   == IF pad = 2 THEN 0 ELSE Base64Index(c(3))
      i4   == IF pad >= 1 THEN 0 ELSE Base64Index(c(4))
  IN  SubSeq(<<i1 * 4 + i2 \div 16, (i2 % 16) * 16 + i3 \div 4, (i3 % 4) * 64 + i4>>,
             1, 3 - pad)

RECURSIVE fromBase64(_)
\* fromBase64(b64): the bytes of atob(b64).
fromBase64(b64) ==
  IF b64 = "" THEN <<>>
  ELSE Base64Bytes(SubSeq(b64, 1, 4)) \o fromBase64(SubSeq(b64, 5, Len(b64)))

\* enc.encode(text): the UTF-8 bytes of text, which for the characters of the
\* model are their codes.
encode(text) == [i \in 1..Len(text) |-> charCodeAt(text, i - 1)]

\* The character of text at position i, or "" outside it.
CharAt(text, i) == IF i >= 1 /\ i <= Len(text) THEN SubSeq(text, i, i) ELSE ""

RECURSIVE Join(_, _, _)
\* The concatenation of piece[from], ..., piece[to], by halves.
Join(piece, from, to) ==
  IF from > to THEN ""
  ELSE IF from = to THEN piece[from]
  ELSE LET mid == (from + to) \div 2
       IN  Join(piece, from, mid) \o Join(piece, mid + 1, to)

\* normalizeMnemonic(input): input.trim().toLowerCase().replace(/\s+/g, ' ').  The
\* white space of the model is the space: a space is kept when a character that
\* is no space stands before it and one stands somewhere after it.
normalizeMnemonic(input) ==
  LET n == Len(input)
      last == IF \E i \in 1..n : CharAt(input, i) # " "
              THEN CHOOSE i \in 1..n :
                     /\ CharAt(input, i) # " "
                     /\ \A j \in (i + 1)..n : CharAt(input, j) = " "
              ELSE 0
      piece == [i \in 1..n |->
                  IF CharAt(input, i) # " " THEN toLowerCase(CharAt(input, i))
                  ELSE IF i > 1 /\ i < last /\ CharAt(input, i - 1) # " " THEN " "
                  ELSE ""]
  IN  Join(piece, 1, n)

\* normalized.split(' ').filter(Boolean).length: the number of words of a
\* normalized mnemonic.
WordCount(normalized) ==
  IF normalized = "" THEN 0
  ELSE 1 + Cardinality({i \in 1..Len(normalized) : CharAt(normalized, i) = " "})

(***************************************************************************)
(* The popup: key derivation and encryption                                 *)
(***************************************************************************)

Iterations == 120000
SaltLength == 16
IvLength == 12
HashLength == 32
TagLength == 16

\* crypto.subtle PBKDF2-SHA256 to 256 bits.  The derivation stands in the model as
\* a one-to-one function of the password (up to 15 characters), the salt and the
\* iteration count: 32 bytes laid out from the three.
Pbkdf2(password, salt, iterations) ==
  [i \in 1..HashLength |->
     IF i < SaltLength
     THEN (IF i <= Len(password) THEN charCodeAt(password, i - 1) ELSE 0)
     ELSE IF i = SaltLength THEN Len(password) % Two8
     ELSE (salt[i - SaltLength] + iterations) % Two8]

\* deriveAesKey(password, salt): the key bytes.
deriveAesKey(password, salt) == Pbkdf2(password, salt, Iterations)

\* derivePasswordHash(password, salt, iterations)
derivePasswordHash(password, salt, iterations) == Pbkdf2(password, salt, iterations)

RECURSIVE SumBytes(_, _, _)
\* bytes[from] + ... + bytes[to], by halves.
SumBytes(bytes, from, to) ==
  IF from > to THEN 0
  ELSE IF from = to THEN bytes[from]
  ELSE LET mid == (from + to) \div 2
       IN  SumBytes(bytes, from, mid) + SumBytes(bytes, mid + 1, to)

\* The authentication tag of AES-GCM over the encrypted bytes: it stands in the
\* model as 16 bytes that depend on the key, the iv and every encrypted byte.
GcmTag(key, iv, body) ==
  LET sum == SumBytes(body, 1, Len(body))
  IN  [j \in 1..TagLength |-> (sum + key[j] + iv[((j - 1) % IvLength) + 1] + j) % Two8]

\* crypto.subtle.encrypt({name: 'AES-GCM', iv}, aesKey, plain): the encrypted
\* bytes followed by the tag.  The cipher stands in the model as the addition of
\* a key stream to the bytes.
AesGcmEncrypt(key, iv, plain) ==
  LET body == [i \in 1..Len(plain) |->
                 (plain[i] + key[((i - 1) % HashLength) + 1]
                    + iv[((i - 1) % IvLength) + 1]) % Two8]
  IN  body \o GcmTag(key, iv, body)

\* crypto.subtle.decrypt accepts cipher under the key and the iv: the tag fits.
AesGcmAccepts(key, iv, cipher) ==
  /\ Len(cipher) >= TagLength
  /\ LET body == SubSeq(cipher, 1, Len(cipher) - TagLength)
     IN  SubSeq(cipher, Len(cipher) - TagLength + 1, Len(cipher)) = GcmTag(key, iv, body)

(***************************************************************************)
(* The popup: storage                                                       *)
(***************************************************************************)

WalletIdKey == "cypher_wallet_id"
VerifierKey == "cypher_password_verifier"
MnemonicKey == "cypher_encrypted_mnemonic"
SeedKey == "cypher_encrypted_seed_placeholder"

\* JSON.stringify(v): the JSON text of v, kept as the value the text denotes.
JSONstringify(v) == [json |-> v]

\* JSON.parse(raw)
JSONparse(raw) == raw.json

\* items[key] = value written into the map of a store.
StoreSet(store, key, value) ==
  [k \in DOMAIN store \cup {key} |-> IF k = key THEN value ELSE store[k]]

\* extensionGet(key) on the stores of the popup p: chrome.storage.local when the
\* extension API is there and holds the key, localStorage otherwise.
extensionGet(p, key) ==
  IF p.hasChrome /\ key \in DOMAIN p.chrome /\ p.chrome[key].type # "null"
  THEN p.chrome[key]
  ELSE IF key \in DOMAIN p.local THEN JSONparse(p.local[key])
  ELSE Null

\* The payload saveEncryptedPayload stores for value under password, with the
\* salt and iv that crypto.getRandomValues gave.
EncryptedPayload(value, password, salt, iv, now) ==
  [type       |-> "object",
   version    |-> 1,
   algorithm  |-> "AES-GCM",
   kdf        |-> "PBKDF2-SHA256",
   iterations |-> Iterations,
   salt       |-> toBase64(salt),
   iv         |-> toBase64(iv),
   cipherText |-> toBase64(AesGcmEncrypt(deriveAesKey(password, salt), iv,
                                         encode(value))),
   createdAt  |-> toISOString(now.s, now.ms)]

\* The verifier savePasswordVerifier stores for password, with the salt that
\* crypto.getRandomValues gave.
PasswordVerifier(password, salt, now) ==
  [type       |-> "object",
   version    |-> 1,
   kdf        |-> "PBKDF2-SHA256",
   iterations |-> Iterations,
   salt       |-> toBase64(salt),
   hash       |-> toBase64(derivePasswordHash(password, salt, Iterations)),
   createdAt  |-> toISOString(now.s, now.ms)]

\* verifyPassword that accepts every password once a verifier is stored.
verifyPasswordAnyPassword(p, password) == Truthy(extensionGet(p, VerifierKey))

\* verifyPassword that also wants the stored secret to decrypt under password.
verifyPasswordDecrypting(p, password) ==
  LET verifier == extensionGet(p, VerifierKey)
      secret == Coalesce(extensionGet(p, MnemonicKey), extensionGet(p, SeedKey))
  IN  /\ Truthy(verifier)
      /\ toBase64(derivePasswordHash(password, fromBase64(verifier.salt),
                                     verifier.iterations)) = verifier.hash
      /\ Truthy(secret)
      /\ AesGcmAccepts(deriveAesKey(password, fromBase64(secret.salt)),
                       fromBase64(secret.iv), fromBase64(secret.cipherText))

\* verifyPassword(password) on the stores of the popup p.
verifyPassword(p, password) ==
  LET verifier == extensionGet(p, VerifierKey)
  IN  /\ Truthy(verifier)
      /\ toBase64(derivePasswordHash(password, fromBase64(verifier.salt),
                                     verifier.iterations)) = verifier.hash

(***************************************************************************)
(* The popup: inputs                                                        *)
(***************************************************************************)

\* The values crypto.getRandomValues gives for the salt of a verifier, and for
\* the salt and the iv of an encrypted payload.
Salts == {[i \in 1..SaltLength |-> (i * 37) % Two8],
          [i \in 1..SaltLength |-> (Two8 - i * 5) % Two8]}
PayloadSalts == {[i \in 1..SaltLength |-> (i * 7 + 90) % Two8]}
Ivs == {[i \in 1..IvLength |-> (i * 11 + 200) % Two8]}

\* The clock reading of the popup.
PopupTimes == {[s |-> 1767225600, ms |-> 0]}

PasswordA == "password1"
PasswordB == "password2"

\* 25 words with a capital, doubled spaces and spaces around, and 24 words.
Mnemonic25 == "  A b  c d e f g h i j k l m n o p q r s t u v w x Y "
Mnemonic24 == "a b c d e f g h i j k l m n o p q r s t u v w x"

\* What the user has typed into the import form when submitting it.
ImportForms ==
  { [walletLabel |-> " Main ", mnemonic |-> Mnemonic25, password |-> PasswordA,
     restoreHeight |-> "100"],
    [walletLabel |-> "", mnemonic |-> Mnemonic24, password |-> PasswordA,
     restoreHeight |-> ""],
    [walletLabel |-> "Main", mnemonic |-> Mnemonic25, password |-> "short",
     restoreHeight |-> "0"] }

\* What the user has typed into the create form when submitting it.
CreateForms ==
  { [walletLabel |-> "", password |-> PasswordB],
    [walletLabel |-> "Main", password |-> "short"] }

\* What the user types into the password field of the unlock screen.
UnlockPasswords == {"", PasswordA, PasswordB}

\* The identifiers the backend returns to the popup.
BackendIds == {UuidPool[1]}

JsonReply(body) == [kind |-> "json", body |-> body]
FetchFailed == [kind |-> "network_error", message |-> "Failed to fetch"]
NotJsonReply == [kind |-> "not_json", message |-> "JSON Parse error"]

\* What fetch and res.json() give for POST /wallets/register-local.
RegisterReplies ==
  {JsonReply([type |-> "object", ok |-> TRUE, walletId |-> Str(id),
              response |-> Undefined]) : id \in BackendIds}
    \cup { JsonReply([type |-> "object", ok |-> TRUE, walletId |-> Undefined,
                      response |-> [type |-> "object", walletId |-> Str(UuidPool[1])]]),
           JsonReply([type |-> "object", ok |-> FALSE, walletId |-> Undefined,
                      response |-> Undefined]),
           FetchFailed, NotJsonReply }

\* A balance and a transaction list as the backend returns them for wallet id.
SampleBalance(id) ==
  [type |-> "object", ok |-> TRUE, walletId |-> id, network |-> "stagenet",
   balanceAtomic |-> "1580000000000", unlockedAtomic |-> "1500000000000",
   syncedHeight |-> 2851204, lastUpdatedAt |-> "2026-01-01T00:00:00.000Z",
   source |-> "mock", message |-> Undefined]
SampleTxs(id) ==
  << [txid |-> "mock_" \o SubSeq(id, 1, 6) \o "_0_65c77613", direction |-> "out",
      amountAtomic |-> "21707570707", feeAtomic |-> "1770707", height |-> 2851204,
      confirmations |-> 0, timestamp |-> "2025-12-31T17:00:00.000Z",
      status |-> "pending"] >>

\* What the two fetches of refreshData and their json() give for wallet id: the
\* bodies of the balance and of the transactions, or a failure of either.
RefreshReplies(id) ==
  { [kind |-> "json", balance |-> SampleBalance(id),
     txs |-> [type |-> "object", ok |-> TRUE,
              txs |-> [type |-> "array", items |-> SampleTxs(id)]]],
    [kind |-> "json", balance |-> SampleBalance(id),
     txs |-> [type |-> "object", ok |-> FALSE, txs |-> Undefined]],
    [kind |-> "json",
     balance |-> [type |-> "object", ok |-> FALSE, message |-> Str("Daemon RPC HTTP 500")],
     txs |-> [type |-> "object", ok |-> FALSE, txs |-> Undefined]],
    [kind |-> "json",
     balance |-> [type |-> "object", ok |-> FALSE, message |-> Undefined],
     txs |-> [type |-> "object", ok |-> FALSE, txs |-> Undefined]],
    FetchFailed }

(***************************************************************************)
(* The popup: state of App                                                  *)
(***************************************************************************)

\* The variables of the server.
serverVars == <<env, provider, wallets, request, response, providerCalls>>

\* No handler of the popup is between two of its awaits.
NoFlow ==
  [op |-> "none", pc |-> "idle", password |-> "", secretKey |-> "", secret |-> "",
   body |-> Null, id |-> "", walletId |-> Null, key |-> "", item |-> Null]

\* The handler op of the popup waits at pc.
Flow(op, pc) == [NoFlow EXCEPT !.op = op, !.pc = pc]

\* No password has been checked since the popup opened.
NoCheck == [made |-> FALSE, password |-> "", verifier |-> Null, ok |-> FALSE]

\* App() as it renders first over the stores chrome and local: the useState
\* values, the mount effect not yet run.
NewApp(hasChrome, chrome, local) ==
  [view |-> "start", walletId |-> Null, balance |-> Null, txs |-> <<>>,
   busy |-> FALSE, status |-> "", unlockPassword |-> "",
   hasChrome |-> hasChrome, chrome |-> chrome, local |-> local,
   mount |-> "pending", flow |-> NoFlow, check |-> NoCheck]

\* The mount effect once extensionGet('cypher_wallet_id') has resolved.
Mounted(p) ==
  LET id == extensionGet(p, WalletIdKey)
  IN  IF Truthy(id)
      THEN [p EXCEPT !.mount = "done", !.walletId = id, !.view = "unlock"]
      ELSE [p EXCEPT !.mount = "done"]

\* The popup opens.  With the extension API the read of the mount effect is
\* awaited and the start screen takes input meanwhile; without it the read
\* resolves before any input.
Open(hasChrome, chrome, local) ==
  IF hasChrome THEN NewApp(hasChrome, chrome, local)
  ELSE Mounted(NewApp(hasChrome, chrome, local))

\* The popup p as the next step finds it: the record of the last password check
\* lasts for the step that made it.
Forget(p) == [p EXCEPT !.check = NoCheck]

\* finally { setBusy(false) }: the handler has run to its end.
Done(p) == [p EXCEPT !.busy = FALSE, !.flow = NoFlow]

\* catch (error) { setStatus(error.message) } finally { setBusy(false) }
Failed(p, message) == Done([p EXCEPT !.status = message])

\* refreshData(id) up to its fetches.
refreshData(p, id) ==
  IF ~Truthy(id) THEN [p EXCEPT !.status = "No wallet connected yet."]
  ELSE [p EXCEPT !.busy = TRUE, !.status = "Refreshing...", !.flow.pc = "refresh",
                 !.flow.id = id.value]

\* What follows `await refreshData(...)` in the handler that called it.
AfterRefresh(p) ==
  CASE p.flow.op = "unlock" -> Done([p EXCEPT !.unlockPassword = ""])
    [] p.flow.op = "create" ->
         Done([p EXCEPT !.status = "Wallet shell created. Next: real mnemonic generation."])
    [] OTHER -> Done(p)

\* await refreshData(id) in a handler: the handler goes on at once when
\* refreshData returns without fetching.
CallRefresh(p, id) ==
  IF Truthy(id) THEN refreshData(p, id) ELSE AfterRefresh(refreshData(p, id))

\* What follows `await persistWalletId(id)` in submitImport and submitCreate.
AfterPersist(p) ==
  CallRefresh([p EXCEPT !.walletId = Str(p.flow.id), !.view = "dashboard",
                        !.unlockPassword = ""],
              Str(p.flow.id))

RECURSIVE extensionSet(_, _, _)

\* What follows `await savePasswordVerifier(...)`: the fetch in submitImport,
\* persistWalletId(id) in submitCreate.
AfterVerifier(p) ==
  IF p.flow.op = "import" THEN [p EXCEPT !.flow.pc = "fetch"]
  ELSE extensionSet(p, WalletIdKey, Str(p.flow.id))

\* A handler that goes on after saveEncryptedPayload as if the verifier were
\* already saved.
AfterPayloadWithoutVerifier(p) == AfterVerifier(p)

\* What follows `await saveEncryptedPayload(...)`: savePasswordVerifier, which
\* awaits the derivation.
AfterPayload(p) == [p EXCEPT !.flow.pc = "derive"]

\* What follows `await extensionSet({[key]: ...})` in the handler at hand.
AfterStore(p, key) ==
  CASE key = WalletIdKey -> AfterPersist(p)
    [] key = VerifierKey -> AfterVerifier(p)
    [] OTHER -> AfterPayload(p)

\* localStorage.setItem(k, JSON.stringify(v)), the second half of extensionSet.
LocalSet(p, key, value) ==
  [p EXCEPT !.local = StoreSet(@, key, JSONstringify(value)),
            !.flow.key = "", !.flow.item = Null]

\* extensionSet({[key]: value}): with the extension API the handler awaits
\* chrome.storage.local.set before it writes localStorage.
extensionSet(p, key, value) ==
  IF p.hasChrome
  THEN [p EXCEPT !.chrome = StoreSet(@, key, value), !.flow.pc = "local",
                 !.flow.key = key, !.flow.item = value]
  ELSE AfterStore(LocalSet(p, key, value), key)

\* String.prototype.trim on the white space of the model.
trim(text) ==
  LET inked == {i \in 1..Len(text) : CharAt(text, i) # " "}
  IN  IF inked = {} THEN ""
      ELSE SubSeq(text, CHOOSE i \in inked : \A j \in inked : i <= j,
                        CHOOSE i \in inked : \A j \in inked : i >= j)

\* The body of the request to POST /wallets/register-local.
RegisterBody(walletLabel, restoreHeight) ==
  [type |-> "object",
   walletLabel |-> Str(IF trim(walletLabel) = "" THEN "Primary Wallet"
                       ELSE trim(walletLabel)),
   restoreHeight |-> IF restoreHeight.finite THEN Num(restoreHeight.value) ELSE Null]

(***************************************************************************)
(* The popup: handlers                                                      *)
(***************************************************************************)

\* The useEffect of App: the stored wallet id has been read.
MountEffect ==
  /\ popup.view # "closed"
  /\ popup.mount = "pending"
  /\ popup' = Mounted(Forget(popup))
  /\ UNCHANGED serverVars

\* The buttons of the start screen (setView('create'), setView('import')) and
\* the Back buttons of the two forms (setView('start')).
Navigate(to) ==
  /\ \/ popup.view = "start" /\ to \in {"create", "import"}
     \/ popup.view \in {"create", "import"} /\ to = "start"
  /\ popup' = [Forget(popup) EXCEPT !.view = to]
  /\ UNCHANGED serverVars

\* submitImport up to its first await.
submitImport(p, form) ==
  LET normalized == normalizeMnemonic(form.mnemonic)
      words == WordCount(normalized)
  IN  IF words # 25
      THEN [p EXCEPT !.status = "Expected 25 words, got " \o ToString(words) \o "."]
      ELSE IF Len(form.password) < 8
      THEN [p EXCEPT !.status = "Password must be at least 8 chars."]
      ELSE [p EXCEPT !.busy = TRUE, !.status = "Importing wallet...",
                     !.flow = [Flow("import", "encrypt") EXCEPT
                                 !.password = form.password,
                                 !.secretKey = MnemonicKey,
                                 !.secret = normalized,
                                 !.body = RegisterBody(form.walletLabel,
                                            NumberOf(IF form.restoreHeight = ""
                                                     THEN "0"
                                                     ELSE form.restoreHeight))]]

\* The import form is submitted (the Import button is disabled while busy).
SubmitImport(form) ==
  /\ popup.view = "import"
  /\ ~popup.busy
  /\ popup' = submitImport(Forget(popup), form)
  /\ UNCHANGED serverVars

\* submitCreate up to its first await.
submitCreate(p, form) ==
  IF Len(form.password) < 8
  THEN [p EXCEPT !.status = "Password must be at least 8 chars."]
  ELSE [p EXCEPT !.busy = TRUE,
                 !.status = "Create wallet flow is scaffolded. Wiring mnemonic generation next.",
                 !.flow = [Flow("create", "fetch") EXCEPT
                             !.password = form.password,
                             !.body = RegisterBody(form.walletLabel, Finite(0))]]

\* The create form is submitted (the Create button is disabled while busy).
SubmitCreate(form) ==
  /\ popup.view = "create"
  /\ ~popup.busy
  /\ popup' = submitCreate(Forget(popup), form)
  /\ UNCHANGED serverVars

\* saveEncryptedPayload: the key is derived and the secret encrypted; the payload
\* is handed to extensionSet.
Encrypted(salt, iv, now) ==
  /\ popup.flow.pc = "encrypt"
  /\ popup' = extensionSet(Forget(popup), popup.flow.secretKey,
                           EncryptedPayload(popup.flow.secret, popup.flow.password,
                                            salt, iv, now))
  /\ UNCHANGED serverVars

\* savePasswordVerifier: the hash is derived; the verifier is handed to
\* extensionSet.
Derived(salt, now) ==
  /\ popup.flow.pc = "derive"
  /\ popup' = extensionSet(Forget(popup), VerifierKey,
                           PasswordVerifier(popup.flow.password, salt, now))
  /\ UNCHANGED serverVars

\* extensionSet: chrome.storage.local.set has resolved; localStorage is written
\* and the handler goes on.
StorageSettled ==
  /\ popup.flow.pc = "local"
  /\ popup' = AfterStore(LocalSet(Forget(popup), popup.flow.key, popup.flow.item),
                         popup.flow.key)
  /\ UNCHANGED serverVars

\* submitImport and submitCreate after the fetch of register-local and its
\* res.json().
registered(p, reply) ==
  IF reply.kind # "json" THEN Failed(p, reply.message)
  ELSE LET data == reply.body
           nested == IF data.response.type = "object" THEN data.response.walletId
                     ELSE Undefined
           id == IF p.flow.op = "import" THEN Coalesce(data.walletId, nested)
                 ELSE data.walletId
       IN  IF ~Truthy(id) THEN Failed(p, "No walletId returned from backend.")
           ELSE IF p.flow.op = "import"
           THEN extensionSet([p EXCEPT !.flow.id = id.value], WalletIdKey, id)
           ELSE [p EXCEPT !.flow.id = id.value, !.flow.pc = "encrypt",
                          !.flow.secretKey = SeedKey,
                          !.flow.secret = "PENDING_GENERATED_MNEMONIC"]

\* The backend has answered the registration.
RegisterReply(reply) ==
  /\ popup.flow.pc = "fetch"
  /\ popup' = registered(Forget(popup), reply)
  /\ UNCHANGED serverVars

\* refreshData after its two fetches and their json(), and then the handler that
\* awaited it.
refreshed(p, reply) ==
  LET q == IF reply.kind # "json" THEN [p EXCEPT !.status = reply.message]
           ELSE IF ~reply.balance.ok
           THEN [p EXCEPT !.status = IF Truthy(reply.balance.message)
                                     THEN reply.balance.message.value
                                     ELSE "Balance fetch failed."]
           ELSE [p EXCEPT !.balance = reply.balance,
                          !.txs = IF reply.txs.txs.type = "array"
                                  THEN reply.txs.txs.items ELSE <<>>,
                          !.status = "Updated."]
  IN  AfterRefresh([q EXCEPT !.busy = FALSE])

\* The backend has answered the two requests of refreshData.
RefreshReply(reply) ==
  /\ popup.flow.pc = "refresh"
  /\ popup' = refreshed(Forget(popup), reply)
  /\ UNCHANGED serverVars

\* The Refresh button of the dashboard (disabled while busy).
RefreshClick ==
  /\ popup.view = "dashboard"
  /\ ~popup.busy
  /\ popup' = CallRefresh([Forget(popup) EXCEPT !.flow = Flow("refresh", "idle")],
                          popup.walletId)
  /\ UNCHANGED serverVars

\* onChange of the password field of the unlock screen.
TypeUnlockPassword(text) ==
  /\ popup.view = "unlock"
  /\ text # popup.unlockPassword
  /\ popup' = [Forget(popup) EXCEPT !.unlockPassword = text]
  /\ UNCHANGED serverVars

\* submitUnlock up to its first await; refreshData is the one of the render that
\* made the handler, with the walletId of that render.
submitUnlock(p) ==
  IF p.unlockPassword = "" THEN [p EXCEPT !.status = "Enter password to unlock."]
  ELSE [p EXCEPT !.busy = TRUE,
                 !.flow = [Flow("unlock", "verify") EXCEPT
                             !.password = p.unlockPassword,
                             !.walletId = p.walletId]]

\* The unlock form is submitted (the Unlock button is disabled while busy).
SubmitUnlock ==
  /\ popup.view = "unlock"
  /\ ~popup.busy
  /\ popup' = submitUnlock(Forget(popup))
  /\ UNCHANGED serverVars

\* submitUnlock after `await verifyPassword(unlockPassword)` gave ok.
verified(p, ok) ==
  LET q == [p EXCEPT !.check = [made |-> TRUE, password |-> p.flow.password,
                                verifier |-> extensionGet(p, VerifierKey),
                                ok |-> ok]]
  IN  IF ~ok THEN Failed(q, "Incorrect password.")
      ELSE CallRefresh([q EXCEPT !.view = "dashboard", !.status = "Unlocked."],
                       q.flow.walletId)

\* verifyPassword has resolved.
Verified ==
  /\ popup.flow.pc = "verify"
  /\ \E ok \in {verifyPassword(popup, popup.flow.password)} :
       popup' = verified(Forget(popup), ok)
  /\ UNCHANGED serverVars

\* logout: the Logout button of the dashboard, which busy does not disable.
logout(p) ==
  [p EXCEPT !.view = "unlock", !.status = "", !.balance = Null, !.txs = <<>>]

Logout ==
  /\ popup.view = "dashboard"
  /\ popup' = logout(Forget(popup))
  /\ UNCHANGED serverVars

\* resetWallet from localStorage.clear() on.
resetDone(p) ==
  Done([p EXCEPT !.local = <<>>, !.walletId = Null, !.balance = Null, !.txs = <<>>,
                 !.unlockPassword = "", !.view = "start",
                 !.status = "Wallet reset complete. Create or import a wallet to continue."])

\* resetWallet up to its await: chrome.storage.local.clear() with the extension
\* API, the whole handler without it.
resetWallet(p) ==
  IF p.hasChrome
  THEN [p EXCEPT !.busy = TRUE, !.chrome = <<>>, !.flow = Flow("reset", "clear")]
  ELSE resetDone(p)

\* The "Forgot password?" button of the unlock screen (disabled while busy).
ResetWallet ==
  /\ popup.view = "unlock"
  /\ ~popup.busy
  /\ popup' = resetWallet(Forget(popup))
  /\ UNCHANGED serverVars

\* chrome.storage.local.clear() has resolved.
ResetCleared ==
  /\ popup.flow.pc = "clear"
  /\ popup' = resetDone(Forget(popup))
  /\ UNCHANGED serverVars

\* The popup is closed, while no handler is pending, and opened again: a new App
\* over the same stores.
Reopen ==
  /\ popup.view # "closed"
  /\ popup.flow.op = "none"
  /\ popup' = Open(popup.hasChrome, popup.chrome, popup.local)
  /\ popup' # popup
  /\ UNCHANGED serverVars

\* cipherText with one byte changed.
CorruptedCipherText(cipherText) ==
  LET bytes == fromBase64(cipherText)
  IN  toBase64([bytes EXCEPT ![1] = IF @ % 2 = 0 THEN @ + 1 ELSE @ - 1])

\* store with the cipherText of the payload under key corrupted.
CorruptedStore(store, key, local) ==
  IF key \notin DOMAIN store THEN store
  ELSE LET payload == IF local THEN JSONparse(store[key]) ELSE store[key]
           bad == [payload EXCEPT !.cipherText = CorruptedCipherText(@)]
       IN  StoreSet(store, key, IF local THEN JSONstringify(bad) ELSE bad)

\* A byte of the cipherText stored under key is corrupted, in every store that
\* holds the payload, while the popup shows the unlock screen and no handler is
\* pending.
Corrupt(key) ==
  /\ popup.view = "unlock"
  /\ popup.flow.op = "none"
  /\ key \in DOMAIN popup.chrome \cup DOMAIN popup.local
  /\ popup' = [Forget(popup) EXCEPT !.chrome = CorruptedStore(@, key, FALSE),
                            !.local = CorruptedStore(@, key, TRUE)]
  /\ UNCHANGED serverVars

PopupInit ==
  /\ popup \in {Open(hasChrome, <<>>, <<>>) : hasChrome \in BOOLEAN}
  /\ env = Undefined
  /\ provider = resolveProvider(env)
  /\ wallets = <<>>
  /\ request = NoRequest
  /\ response = NoResponse
  /\ providerCalls = <<>>

PopupNext ==
  \/ MountEffect
  \/ \E to \in {"start", "create", "import"} : Navigate(to)
  \/ \E form \in ImportForms : SubmitImport(form)
  \/ \E form \in CreateForms : SubmitCreate(form)
  \/ \E salt \in PayloadSalts, iv \in Ivs, now \in PopupTimes :
        Encrypted(salt, iv, now)
  \/ \E salt \in Salts, now \in PopupTimes : Derived(salt, now)
  \/ StorageSettled
  \/ \E reply \in RegisterReplies : RegisterReply(reply)
  \/ /\ popup.flow.pc = "refresh"
     /\ \E reply \in RefreshReplies(popup.flow.id) : RefreshReply(reply)
  \/ RefreshClick
  \/ \E text \in UnlockPasswords : TypeUnlockPassword(text)
  \/ SubmitUnlock
  \/ Verified
  \/ Logout
  \/ ResetWallet
  \/ ResetCleared
  \/ Reopen
  \/ \E key \in {MnemonicKey, SeedKey} : Corrupt(key)

PopupSpec == PopupInit /\ [][PopupNext]_vars

(***************************************************************************)
(* Properties of the simulator's transaction list                           *)
(***************************************************************************)

\* The response at hand is a transaction list the simulator produced.
SimulatorTxs ==
  /\ provider = "MockChainProvider"
  /\ request.op = "getTransactions"
  /\ response.status = 200

\* The limit query of the request at hand is absent or an integer.
IntegerLimit == request.query.type = "undefined" \/ NumberOf(request.query.value).finite

\* The limit the caller asked for (10 when the request names none).
RequestedLimit ==
  IF request.query.type = "undefined" THEN 10 ELSE NumberOf(request.query.value).value

\* C1: every list the simulator returns is ordered most recent first: each
\* entry's height is strictly lower than the height of the entry before it.
C1_HeightsStrictlyDecrease ==
  SimulatorTxs =>
    \A k \in 1..(Len(response.body.txs) - 1) :
      response.body.txs[k + 1].height < response.body.txs[k].height

\* C3: with the simulator, a registered wallet's list has exactly
\* min(max(limit, 1), 50) entries for every integer limit, negative and zero
\* included.
C3_EntryCountIsClampedLimit ==
  (SimulatorTxs /\ IntegerLimit) =>
    Len(response.body.txs) =
      (IF RequestedLimit < 1 THEN 1 ELSE IF RequestedLimit > 50 THEN 50
       ELSE RequestedLimit)

\* C3 witness: a negative limit answered with one entry.
C3_Witness ==
  /\ SimulatorTxs
  /\ request.query = Str("-3")
  /\ Len(response.body.txs) = 1

\* C4: for every transaction of the simulator, confirmations is the tip height
\* (base height plus 120) minus the transaction's height, it is not negative, and
\* status is confirmed exactly when confirmations is at least 10, pending
\* otherwise.
C4_ConfirmationsAndStatus ==
  SimulatorTxs =>
    \A k \in 1..Len(response.body.txs) :
      LET tx == response.body.txs[k]
      IN  /\ tx.confirmations = TipHeight(wallets[request.id]) - tx.height
          /\ tx.confirmations >= 0
          /\ tx.status = (IF tx.confirmations >= 10 THEN "confirmed" ELSE "pending")

\* C4 witness: a list that holds a pending and a confirmed transaction.
C4_Witness ==
  /\ SimulatorTxs
  /\ \E j, k \in 1..Len(response.body.txs) :
        /\ response.body.txs[j].status = "pending"
        /\ response.body.txs[j].confirmations > 0
        /\ response.body.txs[k].status = "confirmed"

(***************************************************************************)
(* Properties of balances                                                   *)
(***************************************************************************)

\* The response at hand is a balance the bound provider produced.
BalanceAnswer == request.op = "getBalance" /\ response.status = 200

\* C2: whichever provider is bound, the syncedHeight of every successful
\* getBalance is at least the restoreHeight of the wallet asked about.
C2_SyncedHeightAtLeastRestoreHeight ==
  BalanceAnswer => response.body.syncedHeight >= wallets[request.id].restoreHeight

\* The three fields of a balance that the determinism claim is about.
BalanceFields(b) ==
  [balanceAtomic |-> b.balanceAtomic, unlockedAtomic |-> b.unlockedAtomic,
   syncedHeight |-> b.syncedHeight]

\* The simulator's answer at hand is the one the wallet record gets at every
\* reading of the clock.
SimulatorBalanceIsFixed ==
  (BalanceAnswer /\ provider = "MockChainProvider") =>
    \A t \in Times :
      BalanceFields(response.body) = BalanceFields(MockGetBalance(wallets[request.id], t))

\* A stored wallet record stays in the registry, unchanged, in every step.
RecordsKept ==
  \A id \in DOMAIN wallets : id \in DOMAIN wallets' /\ wallets'[id] = wallets[id]

\* C9: with the simulator, two getBalance calls for the same wallet record return
\* the same balanceAtomic, unlockedAtomic and syncedHeight, whatever happens in
\* between: the answer is fixed by the record at every clock reading, and no
\* step changes a stored record.
C9_SimulatorBalanceDeterministic == []SimulatorBalanceIsFixed /\ [][RecordsKept]_vars

\* C9 witness: the simulator answers for a wallet at a clock reading other than
\* the one the wallet was created at.
C9_Witness ==
  /\ BalanceAnswer
  /\ provider = "MockChainProvider"
  /\ response.body.lastUpdatedAt # wallets[request.id].createdAt

(***************************************************************************)
(* Properties of the registry's responses                                   *)
(***************************************************************************)

\* The response at hand answers getWallet or a registration.
RegistryResponse ==
  request.op \in {"getWallet", "import", "register-local"} /\ response.status # 0

HasField(obj, f) == f \in DOMAIN obj

\* C5, as stated: no response of getWallet or of a registration has a viewKey
\* field at any depth.
C5_NoViewKeyFieldAnywhere ==
  RegistryResponse =>
    /\ ~HasField(response.body, "viewKey")
    /\ HasField(response.body, "wallet") => ~HasField(response.body.wallet, "viewKey")
    /\ HasField(response.body, "details") =>
         ~HasField(response.body.details.fieldErrors, "viewKey")

\* The messages the import schema reports for the viewKey field.
ViewKeyMessages ==
  {"Required", "view key looks too short"}
    \cup {"Expected string, received " \o t :
            t \in {"null", "number", "float", "object", "boolean", "array"}}

\* C5, amended: no response of getWallet or of a registration has a viewKey
\* field in its body or in its wallet object; the only viewKey entry a response
\* carries is details.fieldErrors.viewKey of a rejected import (status 400), and
\* it lists validation messages.
C5_NoViewKeyInBodyOrWallet ==
  RegistryResponse =>
    /\ ~HasField(response.body, "viewKey")
    /\ HasField(response.body, "wallet") => ~HasField(response.body.wallet, "viewKey")
    /\ (HasField(response.body, "details")
          /\ HasField(response.body.details.fieldErrors, "viewKey")) =>
         /\ response.status = 400
         /\ request.op = "import"
         /\ \A k \in 1..Len(response.body.details.fieldErrors.viewKey) :
              response.body.details.fieldErrors.viewKey[k] \in ViewKeyMessages

\* C5 witness: getWallet answers for a stored wallet, whose record has a view key.
C5_Witness ==
  /\ request.op = "getWallet"
  /\ response.status = 200
  /\ wallets[request.id].viewKey = KeyB

\* needle occurs in hay.
Contains(hay, needle) ==
  \E i \in 1..(Len(hay) - Len(needle) + 1) : SubSeq(hay, i, i + Len(needle) - 1) = needle

TextFields == {"error", "walletId", "walletLabel", "mode", "id", "address",
               "createdAt", "viewKey", "message", "provider", "source"}
NumberFields == {"restoreHeight"}

\* The values of the object obj as text, each with the name of its field (the
\* boolean flags ok and watchOnly aside).
Texts(obj) ==
  {<<f, obj[f]>> : f \in DOMAIN obj \cap TextFields}
    \cup {<<f, ToString(obj[f])>> : f \in DOMAIN obj \cap NumberFields}

\* The messages of a validation report.
DetailTexts(details) ==
  {<<"formErrors", details.formErrors[k]>> : k \in 1..Len(details.formErrors)}
    \cup UNION {{<<f, details.fieldErrors[f][k]>> :
                   k \in 1..Len(details.fieldErrors[f])} :
                 f \in DOMAIN details.fieldErrors}

\* Every value of a response body as text, with the name of its field.
PayloadTexts(body) ==
  Texts(body)
    \cup (IF HasField(body, "wallet") THEN Texts(body.wallet) ELSE {})
    \cup (IF HasField(body, "details") THEN DetailTexts(body.details) ELSE {})

PublicTexts ==
  UNION {{wallets[id].id, wallets[id].address, wallets[id].createdAt,
          ToString(wallets[id].restoreHeight)} : id \in DOMAIN wallets}
    \cup (IF request.op = "register-local" /\ request.body.type = "object"
              /\ request.body.walletLabel.type = "string"
          THEN {request.body.walletLabel.value} ELSE {})
    \cup {"invalid_payload", "wallet_not_found", "mnemonic-local"}
    \cup ViewKeyMessages
    \cup {"address looks too short", "Expected object, received null",
          "String must contain at least 1 character(s)",
          "String must contain at most 100 character(s)",
          "Expected integer, received float",
          "Number must be greater than or equal to 0"}

C7_UnknownIdIsNotFound ==
  [][(request'.op \in {"getWallet", "getBalance", "getTransactions"}
       /\ request'.id \notin DOMAIN wallets) =>
      /\ response'.status = 404
      /\ response'.body = [ok |-> FALSE, error |-> "wallet_not_found"]
      /\ providerCalls' = <<>>
      /\ wallets' = wallets]_vars

\* C7 witness: getTransactions was asked about an identifier that a non-empty
\* registry does not hold.
C7_Witness ==
  /\ request.op = "getTransactions"
  /\ request.id \notin DOMAIN wallets
  /\ wallets # <<>>
  /\ response.status = 404

\* C8: when the provider call of getBalance or getTransactions fails, the caller
\* gets a provider error (status 502) that carries the name of the bound provider
\* and the message of the failure, and every registry entry is as before.
C8_ProviderFailureIsReported ==
  [][(providerCalls' # <<>> /\ providerCalls'[1].threw) =>
      /\ response'.status = 502
      /\ response'.body =
           [ok |-> FALSE,
            error |-> IF request'.op = "getBalance" THEN "provider_balance_error"
                      ELSE "provider_txs_error",
            provider |-> ProviderName(provider),
            message |-> providerCalls'[1].message]
      /\ providerCalls'[1].message # ""
      /\ wallets' = wallets]_vars

\* C8 witness: getBalance of a stored wallet met a daemon that reported an error.
C8_Witness ==
  /\ request.op = "getBalance"
  /\ providerCalls # <<>>
  /\ providerCalls[1].threw
  /\ response.status = 502
  /\ response.body.message = "daemon busy"

\* The provider call at hand made a request to the daemon.
RpcMade == providerCalls # <<>> /\ providerCalls[1].rpc.kind # "none"

\* The reply at hand is an HTTP response whose body is a JSON object.
IsEnvelope(rpc) == rpc.kind = "http" /\ rpc.body.type = "object"

\* C10, as stated: the RPC call succeeds only when the status is 2xx, the
\* envelope has no error field and it has a result.
C10_SuccessOnlyWithoutErrorField ==
  (RpcMade /\ ~providerCalls[1].threw) =>
    LET rpc == providerCalls[1].rpc
    IN  /\ IsEnvelope(rpc)
        /\ HttpOk(rpc.status)
        /\ rpc.body.error.type = "undefined"
        /\ rpc.body.result.type # "undefined"

\* C10, amended: the RPC call succeeds exactly when the status is 2xx, the
\* error field of the envelope is absent or null (falsy) and its result is
\* present and not null (truthy).  The status is checked first, then the error
\* field, then the result, as the message of the failure shows; and every failure
\* reaches the caller as the same provider error, which differs in its message
\* only.
C10_RpcOutcome ==
  RpcMade =>
    LET call == providerCalls[1]
        rpc == call.rpc
        falsy(v) == v.type \in {"undefined", "null"}
    IN  /\ ~call.threw <=>
             (IsEnvelope(rpc) /\ HttpOk(rpc.status) /\ falsy(rpc.body.error)
                /\ ~falsy(rpc.body.result))
        /\ (rpc.kind = "http" /\ ~HttpOk(rpc.status)) =>
             call.message = "Daemon RPC HTTP " \o ToString(rpc.status)
        /\ (IsEnvelope(rpc) /\ HttpOk(rpc.status) /\ ~falsy(rpc.body.error)) =>
             call.message = (IF falsy(rpc.body.error.message) THEN "Daemon RPC error"
                             ELSE rpc.body.error.message.value)
        /\ (IsEnvelope(rpc) /\ HttpOk(rpc.status) /\ falsy(rpc.body.error)
              /\ falsy(rpc.body.result)) =>
             call.message = "Daemon RPC returned no result"
        /\ call.threw =>
             /\ response.status = 502
             /\ DOMAIN response.body = {"ok", "error", "provider", "message"}
             /\ response.body.ok = FALSE
             /\ response.body.error \in {"provider_balance_error", "provider_txs_error"}
             /\ response.body.provider = RealName
             /\ response.body.message = call.message

\* C10 witness: a reply with a non-2xx status and a result in its envelope made
\* the call fail with the message of the status.
C10_Witness ==
  /\ RpcMade
  /\ providerCalls[1].rpc.kind = "http"
  /\ providerCalls[1].rpc.status = 500
  /\ providerCalls[1].threw
  /\ providerCalls[1].message = "Daemon RPC HTTP 500"

(***************************************************************************)
(* Properties of the provider binding                                       *)
(***************************************************************************)

\* C11, as stated: the value 'real' selects the remote provider and an unset or
\* any other value selects the simulator.
C11_OnlyRealSelectsRemote ==
  provider = (IF env = Str("real") THEN "RealMoneroProvider" ELSE "MockChainProvider")

\* C11, amended: one provider is bound at startup: the remote provider when the
\* configuration value is 'real' in any letter case, the simulator when it is
\* unset or any other text; and no request changes the provider or the value.
C11_ProviderBoundOnce ==
  /\ [](/\ provider \in {"RealMoneroProvider", "MockChainProvider"}
        /\ (provider = "RealMoneroProvider") <=>
             (env.type = "string" /\ toLowerCase(env.value) = "real"))
  /\ [][provider' = provider /\ env' = env]_vars

\* C11 witness: a server configured with an unknown value has answered a
\* transaction query from the simulator.
C11_Witness ==
  /\ env = Str("mainnet")
  /\ provider = "MockChainProvider"
  /\ request.op = "getTransactions"
  /\ response.status = 200
  /\ response.body.source = MockName

(***************************************************************************)
(* Properties of registration                                               *)
(***************************************************************************)

\* The step registers a wallet.
Registers == request'.op \in {"import", "register-local"} /\ response'.status = 200

ShorterThan(v, n) == v.type = "string" /\ Len(v.value) < n

\* v is a number that is negative or not an integer.
BadHeight(v) == v.type = "number" /\ (v.value < 0 \/ ~v.integer)

\* The registration request req fails validation for one of the reasons listed:
\* an unparseable body, a short address or view key, a bad restoreHeight, an empty
\* or over-long label.
FailsValidation(req) ==
  /\ req.op \in {"import", "register-local"}
  /\ \/ req.body.type = "not_json"
     \/ /\ req.body.type = "object"
        /\ \/ BadHeight(req.body.restoreHeight)
           \/ /\ req.op = "import"
              /\ ShorterThan(req.body.address, 20) \/ ShorterThan(req.body.viewKey, 20)
           \/ /\ req.op = "register-local"
              /\ \/ ShorterThan(req.body.walletLabel, 1)
                 \/ /\ req.body.walletLabel.type = "string"
                    /\ Len(req.body.walletLabel.value) > 100

\* C13: a registration request that fails validation is answered with the
\* validation error (status 400, invalid_payload, no walletId) and the registry
\* is unchanged.
C13_InvalidRegistrationRejected ==
  [][FailsValidation(request') =>
       /\ response'.status = 400
       /\ response'.body.ok = FALSE
       /\ response'.body.error = "invalid_payload"
       /\ ~HasField(response'.body, "walletId")
       /\ wallets' = wallets]_vars

\* C13 witness: a register-local request with a label of 101 characters was
\* rejected by a registry that holds a wallet.
C13_Witness ==
  /\ request.op = "register-local"
  /\ request.body.type = "object"
  /\ request.body.walletLabel = Str(LongLabel)
  /\ response.status = 400
  /\ wallets # <<>>

(***************************************************************************)
(* Properties of the limit                                                  *)
(***************************************************************************)

\* C16: the limit handed to the provider's getTransactions lies in 1..50.
C16_ProviderReceivesClampedLimit ==
  (providerCalls # <<>> /\ providerCalls[1].method = "getTransactions") =>
    providerCalls[1].limit.value \in 1..50

(***************************************************************************)
(* Properties of the password check of the popup                            *)
(***************************************************************************)

\* The passwords, salts and clock readings a stored verifier can come from.
SavedFrom(verifier) ==
  {saved \in {PasswordA, PasswordB} \X Salts \X PopupTimes :
     verifier = PasswordVerifier(saved[1], saved[2], saved[3])}

\* The popup p with no verifier in either store.
WithoutVerifier(p) ==
  [p EXCEPT !.chrome = [k \in DOMAIN @ \ {VerifierKey} |-> @[k]],
            !.local = [k \in DOMAIN @ \ {VerifierKey} |-> @[k]]]

\* C14: once savePasswordVerifier(p) has stored a verifier, verifyPassword(q)
\* is true exactly when q = p, and with no verifier stored it is false for
\* every password.
C14_VerifierAcceptsOnlyItsPassword ==
  popup.view # "closed" =>
    /\ popup.check.made =>
         IF ~Truthy(popup.check.verifier) THEN ~popup.check.ok
         ELSE /\ SavedFrom(popup.check.verifier) # {}
              /\ \A saved \in SavedFrom(popup.check.verifier) :
                    popup.check.ok <=> popup.check.password = saved[1]
    /\ \A q \in UnlockPasswords : ~verifyPassword(WithoutVerifier(popup), q)

\* A password other than the saved one has been checked against a stored
\* verifier and refused.
C14_Witness ==
  /\ popup.view # "closed"
  /\ popup.check.made
  /\ Truthy(popup.check.verifier)
  /\ popup.check.password \notin {saved[1] : saved \in SavedFrom(popup.check.verifier)}
  /\ ~popup.check.ok

\* The popup p with a byte of every stored cipherText changed.
WithCorruptedPayloads(p) ==
  [p EXCEPT !.chrome = CorruptedStore(CorruptedStore(@, MnemonicKey, FALSE),
                                      SeedKey, FALSE),
            !.local = CorruptedStore(CorruptedStore(@, MnemonicKey, TRUE),
                                     SeedKey, TRUE)]

\* The popup p with no encrypted payload in either store.
WithoutPayloads(p) ==
  [p EXCEPT !.chrome = [k \in DOMAIN @ \ {MnemonicKey, SeedKey} |-> @[k]],
            !.local = [k \in DOMAIN @ \ {MnemonicKey, SeedKey} |-> @[k]]]

\* The encrypted payload the popup p would decrypt.
StoredSecret(p) == Coalesce(extensionGet(p, MnemonicKey), extensionGet(p, SeedKey))

\* password opens the stored payload secret.
Decrypts(password, secret) ==
  AesGcmAccepts(deriveAesKey(password, fromBase64(secret.salt)),
                fromBase64(secret.iv), fromBase64(secret.cipherText))

\* C15: verifyPassword reads only the stored verifier and writes nothing to
\* storage: the step that makes the check leaves both stores as they were, and
\* its result for a password is the one it gives with the stored encrypted
\* payloads corrupted or removed.
C15_CheckIndependentOfPayload ==
  /\ [](popup.view # "closed" /\ popup.check.made =>
          /\ popup.check.ok
                = verifyPassword(WithCorruptedPayloads(popup), popup.check.password)
          /\ popup.check.ok
                = verifyPassword(WithoutPayloads(popup), popup.check.password))
  /\ [][popup'.view # "closed" /\ popup'.check.made =>
          /\ popup'.chrome = popup.chrome
          /\ popup'.local = popup.local]_vars

\* The saved password has been accepted while the stored payload has a
\* corrupted cipherText, one that no password opens.
C15_Witness ==
  /\ popup.view # "closed"
  /\ popup.check.made
  /\ popup.check.ok
  /\ Truthy(StoredSecret(popup))
  /\ \A password \in {PasswordA, PasswordB} : ~Decrypts(password, StoredSecret(popup))

(***************************************************************************)
(* Properties of the views of the popup                                     *)
(***************************************************************************)

\* C17: while the view is 'unlock' the popup holds no wallet data: balance is
\* null and txs is empty, however logout interleaves with a refreshData that
\* was in flight.
C17_NoWalletDataWhileLocked ==
  popup.view = "unlock" => popup.balance = Null /\ popup.txs = <<>>

\* The step is submitUnlock with nothing in the password field.
EmptyUnlock == SubmitUnlock /\ popup.unlockPassword = ""

\* The step is the one in which verifyPassword gave false.
FailedCheck == Verified /\ ~popup'.check.ok

\* C18: the view goes from 'unlock' to 'dashboard' only in the step in which
\* verifyPassword gave true for the entered password; an empty password or a
\* failed check leaves the view at 'unlock', starts no fetch and leaves balance
\* and txs as they were.
C18_DashboardOnlyAfterAcceptedPassword ==
  [][/\ popup.view = "unlock" /\ popup'.view = "dashboard" =>
          /\ popup'.check.made
          /\ popup'.check.ok
          /\ popup'.check.password = popup.flow.password
     /\ EmptyUnlock \/ FailedCheck =>
          /\ popup'.view = "unlock"
          /\ popup'.flow.pc \notin {"fetch", "refresh"}
          /\ popup'.balance = popup.balance
          /\ popup'.txs = popup.txs]_vars

(***************************************************************************)
(* Properties of the storage of the popup                                   *)
(***************************************************************************)

\* C19: whenever a wallet id is stored under 'cypher_wallet_id' a password
\* verifier is stored under 'cypher_password_verifier', in chrome.storage.local,
\* in localStorage and in what extensionGet reads from the two, through every
\* import, create and reset and their failures; the stored wallet can then be
\* unlocked: verifyPassword accepts a password.
C19_StoredWalletHasVerifier ==
  popup.view # "closed" =>
    /\ WalletIdKey \in DOMAIN popup.chrome => VerifierKey \in DOMAIN popup.chrome
    /\ WalletIdKey \in DOMAIN popup.local => VerifierKey \in DOMAIN popup.local
    /\ Truthy(extensionGet(popup, WalletIdKey)) =>
         /\ Truthy(extensionGet(popup, VerifierKey))
         /\ \E password \in {PasswordA, PasswordB} : verifyPassword(popup, password)

\* A wallet id is stored, with its verifier, and a later registration has
\* failed for want of a walletId in the backend's answer.
C19_Witness ==
  /\ popup.view # "closed"
  /\ Truthy(extensionGet(popup, WalletIdKey))
  /\ Truthy(extensionGet(popup, VerifierKey))
  /\ popup.status = "No walletId returned from backend."

====
